---------------------------- MODULE Spec2Model ----------------------------
(***************************************************************************)
(* Model of app5.py: the ETF projection script.                            *)
(*                                                                         *)
(*   get_historical_metrics  (lines 41-84)   history -> (metrics, err)     *)
(*   calculate_projection    (lines 87-153)  month-by-month simulation     *)
(*   the main script         (lines 156-272) extraction, projection, PK    *)
(*                                                                         *)
(* Spec is a run of the script on the sidebar inputs and on what the data  *)
(* provider answers for the two tickers.  SimSpec is calculate_projection  *)
(* on its own: two calls on the same metrics and amounts, one with the     *)
(* dividends reinvested and one without, advanced together.                *)
(*                                                                         *)
(* Numbers.  The script computes in IEEE doubles (numpy.float64 for all    *)
(* values derived from a price).  A number is modelled as a pair <<n, d>>: *)
(* d > 0 is the exact rational n/d in lowest terms, <<1,0>> is +inf,       *)
(* <<-1,0>> is -inf and <<0,0>> is nan, with numpy's rules for division by *)
(* zero and for operations on inf and nan.  Finite arithmetic is exact:    *)
(* the inputs are taken from dyadic values on which the double arithmetic  *)
(* of the script is exact as well (powers of two for prices and rates).    *)
(***************************************************************************)
EXTENDS Integers, Sequences, FiniteSets, TLC

VARIABLES
    pc,        \* position of the script run
    inp,       \* the sidebar inputs (lines 19-38)
    env,       \* what the data provider answers for ticker A (1) and B (2)
    metrics1,  \* line 159
    err1,      \* line 159
    metrics2,  \* lines 169, 173
    err2,      \* line 173
    frame,     \* frame[s]: the locals of the calculate_projection call s
    df1,       \* line 164
    df2,       \* lines 170, 177
    roi1,      \* line 166
    roi2,      \* line 212
    ui,        \* the elements written to the page, in order
    zerodiv    \* source lines at which a division by zero was evaluated

vars == <<pc, inp, env, metrics1, err1, metrics2, err2, frame, df1, df2,
          roi1, roi2, ui, zerodiv>>

\* ------------------------------------------------------------------ bounds

\* Largest investment horizon (years) the model draws; the slider allows 1..40.
MaxYears == 2

\* Bits of the exact values of one run: a horizon is drawn with the rates of a
\* history and a monthly amount only if the values of the run stay below
\* 2^MaxBits (TLC computes in 32-bit integers, and the rounding to hundredths
\* takes seven of them).
MaxBits == 23

\* ------------------------------------------------- program constants

\* line 88: months = years * 12; line 107: (m - 1) // 12 + 1
MonthsPerYear == 12

\* Python's None, where a record (a dict, a DataFrame, a frame) is expected
None == [none |-> TRUE]

\* Python's None, where a string is expected (the error of lines 159, 173)
NoError == "<None>"

\* A numeric local that is not assigned yet
Unbound == <<0, -1>>

\* ------------------------------------------------------------ numbers

NaN == <<0, 0>>
PosInf == <<1, 0>>
NegInf == <<-1, 0>>
Zero == <<0, 1>>
One == <<1, 1>>

Abs(i) == IF i < 0 THEN -i ELSE i

Sgn(i) == IF i < 0 THEN -1 ELSE IF i > 0 THEN 1 ELSE 0

RECURSIVE GCD(_, _)
GCD(a, b) == IF b = 0 THEN a ELSE GCD(b, a % b)

LCM(a, b) == (a \div GCD(a, b)) * b

\* n/d with d > 0, in lowest terms
Norm(n, d) ==
    LET g == GCD(Abs(n), d)
    IN  <<n \div g, d \div g>>

Num(i) == <<i, 1>>

IsNaN(a) == a = NaN

IsInf(a) == a[2] = 0 /\ a[1] # 0

IsFin(a) == a[2] > 0

RNeg(a) == <<-a[1], a[2]>>

RAdd(a, b) ==
    IF IsNaN(a) \/ IsNaN(b) THEN NaN
    ELSE IF IsInf(a) /\ IsInf(b) THEN (IF a = b THEN a ELSE NaN)
    ELSE IF IsInf(a) THEN a
    ELSE IF IsInf(b) THEN b
    ELSE LET l == LCM(a[2], b[2])
         IN  Norm(a[1] * (l \div a[2]) + b[1] * (l \div b[2]), l)

RSub(a, b) == RAdd(a, RNeg(b))

RMul(a, b) ==
    IF IsNaN(a) \/ IsNaN(b) THEN NaN
    ELSE IF IsInf(a) \/ IsInf(b)
         THEN (IF a[1] = 0 \/ b[1] = 0 THEN NaN
               ELSE <<Sgn(a[1]) * Sgn(b[1]), 0>>)
    ELSE LET g1 == GCD(Abs(a[1]), b[2])
             g2 == GCD(Abs(b[1]), a[2])
         IN  <<(a[1] \div g1) * (b[1] \div g2), (a[2] \div g2) * (b[2] \div g1)>>

\* numpy.float64 division: x/0 is +-inf (nan for 0/0) with a RuntimeWarning,
\* never an exception.
RDiv(a, b) ==
    IF IsNaN(a) \/ IsNaN(b) THEN NaN
    ELSE IF IsInf(b) THEN (IF IsInf(a) THEN NaN ELSE Zero)
    ELSE IF b[1] = 0 THEN (IF a[1] = 0 THEN NaN ELSE <<Sgn(a[1]), 0>>)
    ELSE IF IsInf(a) THEN <<Sgn(a[1]) * Sgn(b[1]), 0>>
    ELSE RMul(a, <<Sgn(b[1]) * b[2], Abs(b[1])>>)

\* a < b; every comparison with nan is false
RLt(a, b) ==
    /\ ~IsNaN(a)
    /\ ~IsNaN(b)
    /\ a # b
    /\ IF IsInf(a) THEN a = NegInf
       ELSE IF IsInf(b) THEN b = PosInf
       ELSE RSub(a, b)[1] < 0

RGt(a, b) == RLt(b, a)

REq(a, b) == ~IsNaN(a) /\ ~IsNaN(b) /\ a = b

RLe(a, b) == RLt(a, b) \/ REq(a, b)

RGe(a, b) == RLe(b, a)

IsZero(a) == a = Zero

\* 2^j as a number, j an integer
RECURSIVE IntPow2(_)
IntPow2(j) == IF j = 0 THEN 1 ELSE 2 * IntPow2(j - 1)

Pow2(j) == IF j >= 0 THEN <<IntPow2(j), 1>> ELSE <<1, IntPow2(-j)>>

Log2(a) == CHOOSE j \in -30..30 : a = Pow2(j)

RECURSIVE RPowInt(_, _)
RPowInt(a, k) == IF k = 0 THEN One ELSE RMul(a, RPowInt(a, k - 1))

\* base ** e for a numpy.float64 base and a positive exponent e = <<p, q>>:
\* nan stays nan, a negative base with a fractional exponent is nan, 0 stays
\* 0, inf stays inf; a positive finite base is a power of two 2^j with q | j*p
\* (the values the model draws), for which the result is exactly 2^(j*p/q).
Pow(base, e) ==
    IF IsNaN(base) THEN NaN
    ELSE IF base = One THEN One
    ELSE IF base[1] < 0 THEN (IF e[2] = 1 THEN RPowInt(base, e[1]) ELSE NaN)
    ELSE IF base[1] = 0 THEN Zero
    ELSE IF IsInf(base) THEN PosInf
    ELSE Pow2((Log2(base) * e[1]) \div e[2])

\* round-half-even of the non-negative fraction r/d to an integer
RoundFrac(r, d) ==
    LET q == r \div d
        t == r % d
    IN  IF 2 * t < d THEN q
        ELSE IF 2 * t > d THEN q + 1
        ELSE IF q % 2 = 0 THEN q ELSE q + 1

\* Python's round(x, 0): half to even; inf and nan are returned as they are
Round0(a) ==
    IF ~IsFin(a) THEN a
    ELSE LET s == Sgn(a[1])
         IN  <<s * RoundFrac(Abs(a[1]), a[2]), 1>>

\* Python's round(x, 2): the integer part is kept and the fraction is rounded
\* to hundredths, half to even
Round2(a) ==
    IF ~IsFin(a) THEN a
    ELSE LET s == Sgn(a[1])
             q == Abs(a[1]) \div a[2]
             t == Abs(a[1]) % a[2]
             h == RoundFrac(100 * t, a[2])
         IN  Norm(s * (100 * q + h), 100)

\* ------------------------------------------- calculate_projection (87-153)

\* line 88
Months(years) == years * MonthsPerYear

\* line 89: (1 + cagr) ** (1/12) - 1
MonthlyGrowth(cagr) == RSub(Pow(RAdd(One, cagr), <<1, MonthsPerYear>>), One)

\* line 90: yield / 12
MonthlyYield(yld) == RDiv(yld, Num(MonthsPerYear))

\* lines 98-99: the lump sum buys shares at the latest price
InitialShares(initial_fund, price) ==
    IF initial_fund > 0 THEN RDiv(Num(initial_fund), price) ELSE Zero

\* lines 88-103: the locals of a call before its loop starts.  A call with
\* metrics = None raises TypeError at line 89 (None is not subscriptable).
calculate_projection(metrics, initial_fund, monthly_amt, years, is_reinvest) ==
    IF metrics = None
    THEN [status |-> "TypeError"]
    ELSE [status |-> "loop",
          metrics |-> metrics,
          initial_fund |-> initial_fund,
          monthly_amt |-> monthly_amt,
          years |-> years,
          is_reinvest |-> is_reinvest,
          months |-> Months(years),
          monthly_growth |-> MonthlyGrowth(metrics.cagr),
          monthly_yield |-> MonthlyYield(metrics.yield),
          data |-> << >>,
          current_price |-> metrics.current_price,
          total_shares |-> InitialShares(initial_fund, metrics.current_price),
          total_cost |-> initial_fund,
          cash_wallet |-> Zero,
          total_divs |-> Zero,
          m |-> 0,
          current_year_num |-> 0,
          new_shares |-> Unbound,
          market_val |-> Unbound,
          div_amt |-> Unbound,
          total_asset |-> Unbound,
          avg_cost |-> Unbound]

\* YearNum with the year counted from month 0: month 12 falls in year 2
YearNum_FromZero(m) == m \div MonthsPerYear + 1

\* line 107
YearNum(m) == (m - 1) \div MonthsPerYear + 1

\* line 110
GrowPrice(price, monthly_growth) == RMul(price, RAdd(One, monthly_growth))

\* line 114: the contribution is divided by the price passed in
NewShares(monthly_amt, price) == RDiv(Num(monthly_amt), price)

\* lines 113-116: shares and cost after the monthly purchase at `price`
SharesAfterBuy(f, price) ==
    IF f.monthly_amt > 0
    THEN RAdd(f.total_shares, NewShares(f.monthly_amt, price))
    ELSE f.total_shares

\* CostAfterBuy with the reinvested distribution of the month before booked
\* as cost (whole units)
CostAfterBuy_PlusDivs(f) ==
    (IF f.monthly_amt > 0 THEN f.total_cost + f.monthly_amt ELSE f.total_cost)
        + (IF f.is_reinvest /\ IsFin(f.div_amt) THEN Round0(f.div_amt)[1] ELSE 0)

CostAfterBuy(f) ==
    IF f.monthly_amt > 0 THEN f.total_cost + f.monthly_amt ELSE f.total_cost

\* lines 119-120
MarketVal(shares, price) == RMul(shares, price)

DivAmt(market_val, monthly_yield) == RMul(market_val, monthly_yield)

\* lines 123-127: the distribution becomes shares, or goes to the wallet
SharesAfterDiv(is_reinvest, shares, div_amt, price) ==
    IF is_reinvest THEN RAdd(shares, RDiv(div_amt, price)) ELSE shares

WalletAfterDiv(is_reinvest, wallet, div_amt) ==
    IF is_reinvest THEN wallet ELSE RAdd(wallet, div_amt)

\* line 130
TotalAsset(shares, price, wallet) == RAdd(RMul(shares, price), wallet)

\* lines 132-135
AvgCost(total_cost, shares) ==
    IF RGt(shares, Zero) THEN RDiv(Num(total_cost), shares) ELSE Zero

\* lines 138-151: the row of month m.  The columns, in the order of the
\* source: symbol, cagr_pct, yield_pct, year_n, month_n, total_cost,
\* total_shares, avg_cost, total_divs, price, total_asset, pnl.
Row(f, m, price, cost, shares, avg, divs, asset) ==
    [symbol |-> f.metrics.symbol,
     cagr_pct |-> Round2(RMul(f.metrics.cagr, Num(100))),
     yield_pct |-> Round2(RMul(f.metrics.yield, Num(100))),
     year_n |-> YearNum(m),
     month_n |-> m,
     total_cost |-> Num(cost),
     total_shares |-> Round2(shares),
     avg_cost |-> Round2(avg),
     total_divs |-> Round0(divs),
     price |-> Round2(price),
     total_asset |-> Round0(asset),
     pnl |-> Round0(RSub(asset, Num(cost)))]

\* line 138: data.append(...)
AppendRow(data, row) == Append(data, row)

\* LoopBody with the purchase made before the price grows: the monthly amount
\* buys shares at the price of the month before
LoopBody_BuyFirst(f) ==
    LET m == f.m + 1
        price == GrowPrice(f.current_price, f.monthly_growth)
        bought == SharesAfterBuy(f, f.current_price)
        cost == CostAfterBuy(f)
        mv == MarketVal(bought, price)
        da == DivAmt(mv, f.monthly_yield)
        divs == RAdd(f.total_divs, da)
        shares == SharesAfterDiv(f.is_reinvest, bought, da, price)
        wallet == WalletAfterDiv(f.is_reinvest, f.cash_wallet, da)
        asset == TotalAsset(shares, price, wallet)
        avg == AvgCost(cost, shares)
    IN  [f EXCEPT !.m = m,
                  !.current_year_num = YearNum(m),
                  !.current_price = price,
                  !.new_shares = IF f.monthly_amt > 0
                                 THEN NewShares(f.monthly_amt, f.current_price)
                                 ELSE f.new_shares,
                  !.total_shares = shares,
                  !.total_cost = cost,
                  !.market_val = mv,
                  !.div_amt = da,
                  !.total_divs = divs,
                  !.cash_wallet = wallet,
                  !.total_asset = asset,
                  !.avg_cost = avg,
                  !.data = AppendRow(f.data,
                               Row(f, m, price, cost, shares, avg, divs, asset))]

\* lines 105-151: one iteration of the loop, for m = f.m + 1
LoopBody(f) ==
    LET m == f.m + 1
        price == GrowPrice(f.current_price, f.monthly_growth)
        bought == SharesAfterBuy(f, price)
        cost == CostAfterBuy(f)
        mv == MarketVal(bought, price)
        da == DivAmt(mv, f.monthly_yield)
        divs == RAdd(f.total_divs, da)
        shares == SharesAfterDiv(f.is_reinvest, bought, da, price)
        wallet == WalletAfterDiv(f.is_reinvest, f.cash_wallet, da)
        asset == TotalAsset(shares, price, wallet)
        avg == AvgCost(cost, shares)
    IN  [f EXCEPT !.m = m,
                  !.current_year_num = YearNum(m),
                  !.current_price = price,
                  !.new_shares = IF f.monthly_amt > 0
                                 THEN NewShares(f.monthly_amt, price)
                                 ELSE f.new_shares,
                  !.total_shares = shares,
                  !.total_cost = cost,
                  !.market_val = mv,
                  !.div_amt = da,
                  !.total_divs = divs,
                  !.cash_wallet = wallet,
                  !.total_asset = asset,
                  !.avg_cost = avg,
                  !.data = AppendRow(f.data,
                               Row(f, m, price, cost, shares, avg, divs, asset))]

\* line 153: the loop is over and the DataFrame is returned
Returned(f) == [f EXCEPT !.status = "returned"]

\* the lines of a call's setup at which a division by zero is evaluated
ZeroDivCall(metrics, initial_fund) ==
    IF metrics # None /\ initial_fund > 0 /\ IsZero(metrics.current_price)
    THEN {99} ELSE {}

\* the lines of one loop iteration at which a division by zero is evaluated
ZeroDivLoop(f) ==
    LET price == GrowPrice(f.current_price, f.monthly_growth)
    IN  (IF f.monthly_amt > 0 /\ IsZero(price) THEN {114} ELSE {})
        \cup (IF f.is_reinvest /\ IsZero(price) THEN {124} ELSE {})

\* ----------------------------------------- get_historical_metrics (41-84)

\* Days of a calendar year: the dates of a history are day numbers counted
\* from 1 January of a common year, and resample('YE') (lines 66-67) bins
\* them by calendar year.
DaysPerYear == 365

YearOf(day) == day \div DaysPerYear

\* line 53: (hist.index[-1] - hist.index[0]).days
TimeDiff(hist) == hist[Len(hist)].day - hist[1].day

\* lines 54-56: time_diff / 365.25, raised to 0.01 when below it
YearsPast(time_diff) ==
    LET y == Norm(time_diff * 4, 1461)
    IN  IF RLt(y, <<1, 100>>) THEN <<1, 100>> ELSE y

\* lines 58-61: the growth rate is computed for a positive first price only;
\* for any other first price it is set to 0
PriceCagr(start_price, end_price, years_past) ==
    IF RGt(start_price, Zero)
    THEN RSub(Pow(RDiv(end_price, start_price), RDiv(One, years_past)), One)
    ELSE Zero

RECURSIVE SumOver(_, _, _)
\* the sum of val[i] over the indices i of `idx` (0.0 for none)
SumOver(idx, val, acc) ==
    IF idx = {} THEN acc
    ELSE LET i == CHOOSE j \in idx : TRUE
         IN  SumOver(idx \ {i}, val, RAdd(acc, val[i]))

\* pandas' mean of the values val[i], i in idx: nan values are skipped and
\* the mean of nothing is nan
Mean(idx, val) ==
    LET ok == {i \in idx : ~IsNaN(val[i])}
    IN  IF ok = {} THEN NaN
        ELSE RDiv(SumOver(ok, val, Zero), Num(Cardinality(ok)))

\* resample('YE'): one bin for every year from the first to the last date
YearBins(rows) ==
    IF Len(rows) = 0 THEN {}
    ELSE YearOf(rows[1].day)..YearOf(rows[Len(rows)].day)

RowsOfYear(rows, y) == {i \in 1..Len(rows) : YearOf(rows[i].day) = y}

\* line 66: divs.resample('YE').sum()
YearlyDivs(divs) ==
    [y \in YearBins(divs) |->
        SumOver(RowsOfYear(divs, y), [i \in 1..Len(divs) |-> divs[i].amt], Zero)]

\* line 67: hist['Close'].resample('YE').mean()
YearlyPrices(hist) ==
    [y \in YearBins(hist) |->
        Mean(RowsOfYear(hist, y), [i \in 1..Len(hist) |-> hist[i].close])]

\* lines 63-74
AvgYield(hist, divs, years_past) ==
    IF Len(divs) = 0 THEN Zero
    ELSE LET yearly_divs == YearlyDivs(divs)
             yearly_prices == YearlyPrices(hist)
             common == DOMAIN yearly_divs \cap DOMAIN yearly_prices
         IN  IF Cardinality(common) > 0
             THEN Mean(common,
                       [y \in common |-> RDiv(yearly_divs[y], yearly_prices[y])])
             ELSE RMul(RDiv(SumOver(1..Len(divs),
                                    [i \in 1..Len(divs) |-> divs[i].amt], Zero),
                            Mean(1..Len(hist),
                                 [i \in 1..Len(hist) |-> hist[i].close])),
                       RDiv(One, years_past))

\* the message of line 48
NotFoundMsg == "not found"

\* lines 41-84: <<metrics, error>> for the provider's answer `e`.  An
\* exception raised by the provider is caught at line 83 and its str()
\* becomes the error; an empty history gives the message of line 48.
get_historical_metrics(ticker_symbol, e) ==
    IF e.raises THEN <<None, e.msg>>
    ELSE IF Len(e.hist) = 0 THEN <<None, NotFoundMsg>>
    ELSE LET start_price == e.hist[1].close
             end_price == e.hist[Len(e.hist)].close
             years_past == YearsPast(TimeDiff(e.hist))
         IN  <<[symbol |-> ticker_symbol,
                cagr |-> PriceCagr(start_price, end_price, years_past),
                yield |-> AvgYield(e.hist, e.divs, years_past),
                current_price |-> end_price,
                years_data |-> years_past],
               NoError>>

\* Python's truth value of the error of line 159 / 173: None and the empty
\* string are false
Truthy(err) == err # NoError /\ err # ""

\* ------------------------------------------------- the data provider

Answer(hist, divs) == [raises |-> FALSE, msg |-> "", hist |-> hist, divs |-> divs]

\* yfinance raises an exception whose str() is msg
Raises(msg) == [raises |-> TRUE, msg |-> msg, hist |-> << >>, divs |-> << >>]

Row2(d1, c1, d2, c2) == <<[day |-> d1, close |-> c1], [day |-> d2, close |-> c2]>>

\* Price histories.  487 days are 4/3 of a year of 365.25 days, so that a
\* price ratio of 2^16 is a growth factor of 2^12 a year and 2 a month.
HistEmpty == << >>
HistSingle == <<[day |-> 0, close |-> <<2, 1>>]>>
HistFlat == Row2(0, One, 487, One)
HistUp == Row2(0, <<1, 65536>>, 487, One)
HistDown == Row2(0, <<65536, 1>>, 487, One)
HistZeroEnd == Row2(0, One, 487, Zero)
HistNegEnd == Row2(0, One, 487, <<-1, 1>>)
HistZeroStart == Row2(0, Zero, 487, One)

\* Dividend histories: none, one in the second year of the prices, one in a
\* year after the last price
DivsNone == << >>
DivsYear1 == <<[day |-> 400, amt |-> <<12, 1>>]>>
DivsLate == <<[day |-> 800, amt |-> <<16, 1>>]>>

\* What the provider can answer for ticker A
Answers ==
    {Raises(""), Raises("timeout"),
     Answer(HistEmpty, DivsNone),
     Answer(HistSingle, DivsNone),
     Answer(HistFlat, DivsNone), Answer(HistFlat, DivsYear1),
     Answer(HistFlat, DivsLate),
     Answer(HistUp, DivsNone),
     Answer(HistDown, DivsNone), Answer(HistDown, DivsYear1),
     Answer(HistZeroEnd, DivsNone), Answer(HistZeroEnd, DivsLate),
     Answer(HistNegEnd, DivsNone),
     Answer(HistZeroStart, DivsNone)}

\* What the provider can answer for ticker B
AnswersB ==
    {Raises(""), Raises("timeout"),
     Answer(HistEmpty, DivsNone),
     Answer(HistFlat, DivsNone),
     Answer(HistUp, DivsNone),
     Answer(HistZeroEnd, DivsNone)}

\* The answer assumed for a ticker the run never asks for
Unasked == Answer(HistFlat, DivsNone)

\* Bits a month of simulation adds to the exact values of a run (one for a
\* growth factor other than 1, one for a distribution)
RateBits(metrics) ==
    LET g == MonthlyGrowth(metrics.cagr)
        y == MonthlyYield(metrics.yield)
    IN  (IF IsFin(g) /\ g # Zero /\ g # <<-1, 1>> THEN 1 ELSE 0)
        + (IF IsFin(y) /\ y # Zero /\ IsFin(metrics.current_price)
              /\ ~IsZero(metrics.current_price) THEN 1 ELSE 0)

\* The exact values of a run of `years` years on this answer, with this
\* monthly amount, fit
Fits(e, years, monthly_amt) ==
    LET r == get_historical_metrics("X", e)
    IN  IF r[1] = None THEN TRUE
        ELSE IF RateBits(r[1]) = 0 THEN TRUE
        ELSE Months(years) * RateBits(r[1])
                 + (IF monthly_amt > 0 THEN 1 ELSE 0) <= MaxBits

\* ------------------------------------------------------ the sidebar (17-38)

\* line 35: st.slider(min_value=1, max_value=40)
SliderMin == 1
SliderMax == 40

Min(a, b) == IF a < b THEN a ELSE b

\* lines 19-38: what the user can enter.  ticker2 stays "" unless PK mode is
\* on; the amounts are integers >= 0 (min_value=0).
Inputs ==
    {i \in [ticker1 : {"A"},
            enable_pk : BOOLEAN,
            ticker2 : {"", "B"},
            initial_lump_sum : {0, 1},
            monthly_invest : {0, 1},
            future_years : SliderMin..Min(MaxYears, SliderMax),
            reinvest : BOOLEAN,
            btn_calc : BOOLEAN] :
        ~i.enable_pk => i.ticker2 = ""}

NoFrames == <<None, None>>

Init ==
    /\ pc = "sidebar"
    /\ inp \in Inputs
    /\ env \in {<<a, b>> : a \in Answers, b \in AnswersB}
    /\ ~inp.btn_calc => env = <<Unasked, Unasked>>
    /\ ~(inp.enable_pk /\ inp.ticker2 # "") => env[2] = Unasked
    /\ Fits(env[1], inp.future_years, inp.monthly_invest)
    /\ Fits(env[2], inp.future_years, inp.monthly_invest)
    /\ metrics1 = None
    /\ err1 = NoError
    /\ metrics2 = None
    /\ err2 = NoError
    /\ frame = NoFrames
    /\ df1 = None
    /\ df2 = None
    /\ roi1 = Unbound
    /\ roi2 = Unbound
    /\ ui = << >>
    /\ zerodiv = {}

\* ---------------------------------------------------- the main script

\* lines 31-32: all the sidebar does about two zero amounts is a warning
Sidebar ==
    /\ pc = "sidebar"
    /\ ui' = IF inp.initial_lump_sum = 0 /\ inp.monthly_invest = 0
             THEN Append(ui, "warning") ELSE ui
    /\ pc' = "main"
    /\ UNCHANGED <<inp, env, metrics1, err1, metrics2, err2, frame, df1, df2,
                   roi1, roi2, zerodiv>>

\* lines 271-272: the button was not pressed
Idle ==
    /\ pc = "main"
    /\ ~inp.btn_calc
    /\ ui' = Append(ui, "info")
    /\ pc' = "done"
    /\ UNCHANGED <<inp, env, metrics1, err1, metrics2, err2, frame, df1, df2,
                   roi1, roi2, zerodiv>>

\* lines 156-159
ExtractA ==
    /\ pc = "main"
    /\ inp.btn_calc
    /\ LET r == get_historical_metrics(inp.ticker1, env[1])
       IN  metrics1' = r[1] /\ err1' = r[2]
    /\ pc' = "checkA"
    /\ UNCHANGED <<inp, env, metrics2, err2, frame, df1, df2, roi1, roi2, ui,
                   zerodiv>>

\* lines 161-162: the run ends with the error of ticker A
ErrorA ==
    /\ pc = "checkA"
    /\ Truthy(err1)
    /\ ui' = Append(ui, "errorA")
    /\ pc' = "done"
    /\ UNCHANGED <<inp, env, metrics1, err1, metrics2, err2, frame, df1, df2,
                   roi1, roi2, zerodiv>>

\* the call of line 164 (s = 1) or line 177 (s = 2)
Call(s, metrics) ==
    calculate_projection(metrics, inp.initial_lump_sum, inp.monthly_invest,
                         inp.future_years, inp.reinvest)

\* lines 163-164: the call; a TypeError in it ends the script
CallProjA ==
    /\ pc = "checkA"
    /\ ~Truthy(err1)
    /\ frame' = [frame EXCEPT ![1] = Call(1, metrics1)]
    /\ zerodiv' = zerodiv \cup ZeroDivCall(metrics1, inp.initial_lump_sum)
    /\ pc' = IF frame'[1].status = "TypeError" THEN "crashed" ELSE "loopA"
    /\ UNCHANGED <<inp, env, metrics1, err1, metrics2, err2, df1, df2, roi1,
                   roi2, ui>>

\* lines 105-151, in the call of line 164
LoopA ==
    /\ pc = "loopA"
    /\ frame[1].m < frame[1].months
    /\ frame' = [frame EXCEPT ![1] = LoopBody(frame[1])]
    /\ zerodiv' = zerodiv \cup ZeroDivLoop(frame[1])
    /\ UNCHANGED <<pc, inp, env, metrics1, err1, metrics2, err2, df1, df2,
                   roi1, roi2, ui>>

\* line 166 / 212: pnl / total_cost * 100 of the last row
Roi(final) == RMul(RDiv(final.pnl, final.total_cost), Num(100))

ZeroDivRoi(final, line) == IF IsZero(final.total_cost) THEN {line} ELSE {}

\* line 153: pd.DataFrame(data)
DataFrame(data) == [rows |-> data]

\* df.iloc[-1]
Last(df) == df.rows[Len(df.rows)]

\* lines 153, 164-166
ReturnA ==
    /\ pc = "loopA"
    /\ frame[1].m = frame[1].months
    /\ frame' = [frame EXCEPT ![1] = Returned(frame[1])]
    /\ df1' = DataFrame(frame[1].data)
    /\ roi1' = Roi(Last(df1'))
    /\ zerodiv' = zerodiv \cup ZeroDivRoi(Last(df1'), 166)
    /\ pc' = "pk"
    /\ UNCHANGED <<inp, env, metrics1, err1, metrics2, err2, df2, roi2, ui>>

\* lines 169-171: no second ticker
SkipB ==
    /\ pc = "pk"
    /\ ~(inp.enable_pk /\ inp.ticker2 # "")
    /\ metrics2' = None
    /\ df2' = None
    /\ pc' = "show"
    /\ UNCHANGED <<inp, env, metrics1, err1, err2, frame, df1, roi1, roi2, ui,
                   zerodiv>>

\* lines 169-173
ExtractB ==
    /\ pc = "pk"
    /\ inp.enable_pk /\ inp.ticker2 # ""
    /\ LET r == get_historical_metrics(inp.ticker2, env[2])
       IN  metrics2' = r[1] /\ err2' = r[2]
    /\ df2' = None
    /\ pc' = "checkB"
    /\ UNCHANGED <<inp, env, metrics1, err1, frame, df1, roi1, roi2, ui,
                   zerodiv>>

\* lines 174-175
ErrorB ==
    /\ pc = "checkB"
    /\ Truthy(err2)
    /\ ui' = Append(ui, "errorB")
    /\ pc' = "show"
    /\ UNCHANGED <<inp, env, metrics1, err1, metrics2, err2, frame, df1, df2,
                   roi1, roi2, zerodiv>>

\* lines 176-177
CallProjB ==
    /\ pc = "checkB"
    /\ ~Truthy(err2)
    /\ frame' = [frame EXCEPT ![2] = Call(2, metrics2)]
    /\ zerodiv' = zerodiv \cup ZeroDivCall(metrics2, inp.initial_lump_sum)
    /\ pc' = IF frame'[2].status = "TypeError" THEN "crashed" ELSE "loopB"
    /\ UNCHANGED <<inp, env, metrics1, err1, metrics2, err2, df1, df2, roi1,
                   roi2, ui>>

\* lines 105-151, in the call of line 177
LoopB ==
    /\ pc = "loopB"
    /\ frame[2].m < frame[2].months
    /\ frame' = [frame EXCEPT ![2] = LoopBody(frame[2])]
    /\ zerodiv' = zerodiv \cup ZeroDivLoop(frame[2])
    /\ UNCHANGED <<pc, inp, env, metrics1, err1, metrics2, err2, df1, df2,
                   roi1, roi2, ui>>

\* lines 153, 177
ReturnB ==
    /\ pc = "loopB"
    /\ frame[2].m = frame[2].months
    /\ frame' = [frame EXCEPT ![2] = Returned(frame[2])]
    /\ df2' = DataFrame(frame[2].data)
    /\ pc' = "show"
    /\ UNCHANGED <<inp, env, metrics1, err1, metrics2, err2, df1, roi1, roi2,
                   ui, zerodiv>>

\* lines 182-208: the metrics of A (and of B when it has any), the overview
\* and the report of A
ShowA ==
    /\ pc = "show"
    /\ ui' = ui \o <<"metricsA">>
                \o (IF metrics2 # None THEN <<"metricsB">> ELSE << >>)
                \o <<"overview", "reportA">>
    /\ pc' = "compare"
    /\ UNCHANGED <<inp, env, metrics1, err1, metrics2, err2, frame, df1, df2,
                   roi1, roi2, zerodiv>>

\* lines 221-225: A wins when diff > 0, B in every other case
Winner(final1, final2) ==
    LET diff == RSub(final1.total_asset, final2.total_asset)
    IN  IF RGt(diff, Zero) THEN "winA" ELSE "winB"

\* lines 210-225: the report of B and the conclusion
Compare ==
    /\ pc = "compare"
    /\ metrics2 # None /\ df2 # None
    /\ roi2' = Roi(Last(df2))
    /\ zerodiv' = zerodiv \cup ZeroDivRoi(Last(df2), 212)
    /\ ui' = ui \o <<"reportB", Winner(Last(df1), Last(df2))>>
    /\ pc' = "chart"
    /\ UNCHANGED <<inp, env, metrics1, err1, metrics2, err2, frame, df1, df2,
                   roi1>>

\* line 210 is false: nothing is written about ticker B or a comparison
NoCompare ==
    /\ pc = "compare"
    /\ ~(metrics2 # None /\ df2 # None)
    /\ pc' = "chart"
    /\ UNCHANGED <<inp, env, metrics1, err1, metrics2, err2, frame, df1, df2,
                   roi1, roi2, ui, zerodiv>>

\* lines 227-269: the chart and the downloads
Chart ==
    /\ pc = "chart"
    /\ ui' = ui \o <<"chart", "downloadA">>
                \o (IF metrics2 # None /\ df2 # None
                    THEN <<"downloadB">> ELSE << >>)
    /\ pc' = "done"
    /\ UNCHANGED <<inp, env, metrics1, err1, metrics2, err2, frame, df1, df2,
                   roi1, roi2, zerodiv>>

Next ==
    \/ Sidebar
    \/ Idle
    \/ ExtractA
    \/ ErrorA
    \/ CallProjA
    \/ LoopA
    \/ ReturnA
    \/ SkipB
    \/ ExtractB
    \/ ErrorB
    \/ CallProjB
    \/ LoopB
    \/ ReturnB
    \/ ShowA
    \/ Compare
    \/ NoCompare
    \/ Chart

Spec == Init /\ [][Next]_vars

\* ------------------------- calculate_projection on its own, in both modes

\* The answers for which get_historical_metrics returns metrics
SimAnswers ==
    {a \in Answers \cup {Answer(HistUp, DivsYear1)} :
        get_historical_metrics("A", a)[1] # None}

\* Two calls on the same metrics and amounts, frame[1] with the dividends
\* reinvested and frame[2] without, advanced month by month together
SimInit ==
    /\ pc = "sim"
    /\ inp \in {i \in Inputs : i.btn_calc /\ ~i.enable_pk /\ i.reinvest}
    /\ env \in {<<a, a>> : a \in SimAnswers}
    /\ Fits(env[1], inp.future_years, inp.monthly_invest)
    /\ metrics1 = get_historical_metrics(inp.ticker1, env[1])[1]
    /\ metrics2 = metrics1
    /\ err1 = NoError
    /\ err2 = NoError
    /\ frame = <<calculate_projection(metrics1, inp.initial_lump_sum,
                     inp.monthly_invest, inp.future_years, TRUE),
                 calculate_projection(metrics1, inp.initial_lump_sum,
                     inp.monthly_invest, inp.future_years, FALSE)>>
    /\ df1 = None
    /\ df2 = None
    /\ roi1 = Unbound
    /\ roi2 = Unbound
    /\ ui = << >>
    /\ zerodiv = ZeroDivCall(metrics1, inp.initial_lump_sum)

\* lines 105-151, in both calls
SimLoop ==
    /\ pc = "sim"
    /\ frame[1].m < frame[1].months
    /\ frame' = <<LoopBody(frame[1]), LoopBody(frame[2])>>
    /\ zerodiv' = zerodiv \cup ZeroDivLoop(frame[1]) \cup ZeroDivLoop(frame[2])
    /\ UNCHANGED <<pc, inp, env, metrics1, err1, metrics2, err2, df1, df2,
                   roi1, roi2, ui>>

\* line 153, in both calls
SimReturn ==
    /\ pc = "sim"
    /\ frame[1].m = frame[1].months
    /\ frame' = <<Returned(frame[1]), Returned(frame[2])>>
    /\ df1' = DataFrame(frame[1].data)
    /\ df2' = DataFrame(frame[2].data)
    /\ pc' = "simdone"
    /\ UNCHANGED <<inp, env, metrics1, err1, metrics2, err2, roi1, roi2, ui,
                   zerodiv>>

SimNext ==
    \/ SimLoop
    \/ SimReturn

SimSpec == SimInit /\ [][SimNext]_vars

\* ------------------------------------------------------------- claims

\* Call s of calculate_projection has started its loop (or returned)
Live(s) == frame[s] # None /\ frame[s].status \in {"loop", "returned"}

InUi(x) == \E i \in 1..Len(ui) : ui[i] = x

\* The run of the script is over
Finished == pc \in {"done", "crashed"}

\* The button was pressed in PK mode with a second ticker
PKRun == inp.btn_calc /\ inp.enable_pk /\ inp.ticker2 # ""

\* The history the provider has for a ticker is usable: it answers, and the
\* history is not empty
Usable(e) == ~e.raises /\ Len(e.hist) > 0

\* The first or the latest price of a history is zero or negative
BadPrice(e) ==
    /\ Usable(e)
    /\ \/ RLe(e.hist[1].close, Zero)
       \/ RLe(e.hist[Len(e.hist)].close, Zero)

\* The extraction of a ticker with this answer returns no metrics
Fails(e) == get_historical_metrics("X", e)[1] = None

\* The extraction of a ticker with this answer returns metrics, from a
\* history whose prices are positive
WouldSucceed(e) == ~Fails(e) /\ ~BadPrice(e)

\* The amounts of the run are a valid configuration
ValidConfig == inp.initial_lump_sum > 0 \/ inp.monthly_invest > 0

\* C1: in PK mode with valid amounts, when the extraction of one ticker fails
\* and the other's would succeed, the finished run shows the report of the
\* other ticker and no winner.
C1_OtherSymbolReported ==
    (Finished /\ PKRun /\ ValidConfig) =>
        /\ (Fails(env[1]) /\ WouldSucceed(env[2]))
               => (InUi("reportB") /\ ~InUi("winA") /\ ~InUi("winB"))
        /\ (WouldSucceed(env[1]) /\ Fails(env[2]))
               => (InUi("reportA") /\ ~InUi("winA") /\ ~InUi("winB"))

\* C2: with both amounts zero (and a history of positive prices for
\* ticker A), calculate_projection is never called and no division by zero
\* is evaluated.
C2_ZeroConfigRejected ==
    (inp.initial_lump_sum = 0 /\ inp.monthly_invest = 0
        /\ WouldSucceed(env[1])) =>
        /\ frame = NoFrames
        /\ zerodiv = {}

\* total_cost, total_shares and total_divs do not decrease from row k to k+1
NonDecreasing(data) ==
    \A k \in 1..(Len(data) - 1) :
        /\ RLe(data[k].total_cost, data[k + 1].total_cost)
        /\ RLe(data[k].total_shares, data[k + 1].total_shares)
        /\ RLe(data[k].total_divs, data[k + 1].total_divs)

\* C3: for a valid configuration and any metrics, the rows of a call have
\* non-decreasing total_cost, total_shares and total_divs.
C3_Monotone ==
    ValidConfig => \A s \in {1, 2} : Live(s) => NonDecreasing(frame[s].data)

\* C4 (rows): a call has appended one row per month so far; row k has month
\* index k and year index ((k - 1) div 12) + 1; a returned call has
\* future_years * 12 rows.
C4_Rows ==
    \A s \in {1, 2} : Live(s) =>
        /\ Len(frame[s].data) = frame[s].m
        /\ \A k \in 1..Len(frame[s].data) :
              /\ frame[s].data[k].month_n = k
              /\ frame[s].data[k].year_n = ((k - 1) \div 12) + 1
        /\ frame[s].status = "returned" =>
              Len(frame[s].data) = inp.future_years * 12

\* C4 (append-only): the rows a call has appended stay as they are
C4_AppendOnly ==
    \A s \in {1, 2} : Live(s) =>
        /\ Len(frame'[s].data) >= Len(frame[s].data)
        /\ SubSeq(frame'[s].data, 1, Len(frame[s].data)) = frame[s].data

\* C4: calculate_projection produces exactly future_years * 12 rows, the
\* k-th with month index k and year index ((k - 1) div 12) + 1, and a row is
\* never changed after it is appended.
C4_Snapshots == [] C4_Rows /\ [][C4_AppendOnly]_vars

\* C4 witness: a returned call of two years, whose 13th row opens year 2
C4_Witness ==
    \E s \in {1, 2} :
        /\ Live(s)
        /\ frame[s].status = "returned"
        /\ Len(frame[s].data) = 24
        /\ frame[s].data[12].year_n = 1
        /\ frame[s].data[13].year_n = 2
        /\ frame[s].data[24].month_n = 24

\* C5: with both projections (of valid amounts, from histories of positive
\* prices), A is
\* named the winner when its final asset value is greater, B when B's is
\* greater, and neither when they are equal.
C5_WinnerOrTie ==
    (pc = "done" /\ df1 # None /\ df2 # None /\ metrics2 # None
        /\ ValidConfig /\ WouldSucceed(env[1]) /\ WouldSucceed(env[2])) =>
        LET a == Last(df1).total_asset
            b == Last(df2).total_asset
        IN  /\ RGt(a, b) => (InUi("winA") /\ ~InUi("winB"))
            /\ RGt(b, a) => (InUi("winB") /\ ~InUi("winA"))
            /\ REq(a, b) => (~InUi("winA") /\ ~InUi("winB"))

\* Extraction has been done for ticker A (s = 1) or B (s = 2)
Extracted(s) ==
    IF s = 1 THEN pc \notin {"sidebar", "main"}
    ELSE pc \in {"checkB", "loopB", "show", "compare", "chart", "done", "crashed"}
         /\ PKRun

MetricsOf(s) == IF s = 1 THEN metrics1 ELSE metrics2

ErrOf(s) == IF s = 1 THEN err1 ELSE err2

\* C6: a history whose first or latest price is zero or negative gives an
\* error and no metrics; no call starts from a price <= 0 and no purchase of
\* shares divides by a zero price.
C6_BadPriceRejected ==
    /\ \A s \in {1, 2} : (Extracted(s) /\ BadPrice(env[s])) =>
           (MetricsOf(s) = None /\ Truthy(ErrOf(s)))
    /\ \A s \in {1, 2} : Live(s) => RGt(frame[s].metrics.current_price, Zero)
    /\ zerodiv \cap {99, 114, 124} = {}

\* C7: an empty history gives an error and no metrics, and no call of
\* calculate_projection is made for a ticker whose extraction failed.
C7_FailureConsumed ==
    /\ \A s \in {1, 2} : (Extracted(s) /\ ~env[s].raises /\ Len(env[s].hist) = 0)
           => (MetricsOf(s) = None /\ Truthy(ErrOf(s)))
    /\ \A s \in {1, 2} : frame[s] # None => MetricsOf(s) # None

\* The two calls of SimSpec are on metrics with a positive yield
PositiveYield == metrics1 # None /\ RGt(metrics1.yield, Zero)

\* total asset value of the reinvesting call minus that of the other call
Gap == RSub(frame[1].total_asset, frame[2].total_asset)

\* C8 (states): with a positive yield and valid amounts, after month 1 the
\* total asset values of the two modes are equal, and at the end the
\* reinvesting call holds strictly more shares.
C8_States ==
    (pc \in {"sim", "simdone"} /\ PositiveYield /\ ValidConfig) =>
        /\ frame[1].m = 1 => REq(frame[1].total_asset, frame[2].total_asset)
        /\ frame[1].status = "returned" =>
               RGt(frame[1].total_shares, frame[2].total_shares)

\* C8 (steps): with positive growth, the gap between the total asset values
\* of the two modes does not shrink from a month to the next
C8_Steps ==
    (pc = "sim" /\ PositiveYield /\ ValidConfig
        /\ RGt(frame[1].monthly_growth, Zero)
        /\ frame[1].m >= 1 /\ frame'[1].m = frame[1].m + 1) =>
        RGe(RSub(frame'[1].total_asset, frame'[2].total_asset), Gap)

\* C8: on equal metrics with a positive yield and valid amounts, reinvesting
\* gives strictly more final shares, the same total asset value after month
\* 1, and with positive growth a gap in total asset value that never shrinks.
C8_ReinvestEffect == [] C8_States /\ [][C8_Steps]_vars

\* C9: a loop iteration grows the price first, buys the contribution at the
\* grown price, computes the distribution on the market value that includes
\* the shares just bought, and then reinvests or banks it.
C9_StepOrder ==
    \A s \in {1, 2} :
        (Live(s) /\ frame'[s].m = frame[s].m + 1) =>
            LET f == frame[s]
                g == frame'[s]
                grown == RMul(f.current_price, RAdd(One, f.monthly_growth))
                bought == IF f.monthly_amt > 0
                          THEN RAdd(f.total_shares,
                                    RDiv(Num(f.monthly_amt), grown))
                          ELSE f.total_shares
                dist == RMul(RMul(bought, grown), f.monthly_yield)
            IN  /\ g.current_price = grown
                /\ f.monthly_amt > 0 =>
                       g.new_shares = RDiv(Num(f.monthly_amt), grown)
                /\ g.market_val = RMul(bought, grown)
                /\ g.div_amt = dist
                /\ g.total_divs = RAdd(f.total_divs, dist)
                /\ f.is_reinvest =>
                       /\ g.total_shares = RAdd(bought, RDiv(dist, grown))
                       /\ g.cash_wallet = f.cash_wallet
                /\ ~f.is_reinvest =>
                       /\ g.total_shares = bought
                       /\ g.cash_wallet = RAdd(f.cash_wallet, dist)

C9_Order == [][C9_StepOrder]_vars

\* C9 witness: a month of a call with a monthly amount and a growing price,
\* in which the shares were bought at the grown price, not at the price
\* before growth
C9_Witness ==
    \E s \in {1, 2} :
        /\ Live(s)
        /\ frame[s].m >= 2
        /\ frame[s].monthly_amt > 0
        /\ RGt(frame[s].monthly_growth, Zero)
        /\ RGt(frame[s].current_price, Zero)
        /\ frame[s].new_shares =
               RDiv(Num(frame[s].monthly_amt), frame[s].current_price)
        /\ frame[s].new_shares #
               RDiv(Num(frame[s].monthly_amt),
                    RDiv(frame[s].current_price,
                         RAdd(One, frame[s].monthly_growth)))

\* C10: at every month m of a call the running total_cost is
\* initial_lump_sum + m * monthly_contribution, and so is the total_cost of
\* row m, whatever the metrics and the reinvest flag.
C10_CostBasis ==
    \A s \in {1, 2} : Live(s) =>
        /\ frame[s].total_cost =
               inp.initial_lump_sum + frame[s].m * inp.monthly_invest
        /\ \A k \in 1..Len(frame[s].data) :
               frame[s].data[k].total_cost =
                   <<inp.initial_lump_sum + k * inp.monthly_invest, 1>>

\* C10 witness: a reinvesting call with a monthly amount that has received
\* distributions, some months in
C10_Witness ==
    \E s \in {1, 2} :
        /\ Live(s)
        /\ frame[s].m >= 3
        /\ frame[s].is_reinvest
        /\ frame[s].monthly_amt > 0
        /\ RGt(frame[s].total_divs, Zero)
        /\ frame[s].total_cost = inp.initial_lump_sum + frame[s].m

=============================================================================
